---- MODULE Spec2Model ----
(***************************************************************************)
(* A model of the superfaktura client library: the transport client        *)
(* (superfaktura/superfaktura_api.py), the record mapping of the resource  *)
(* modules (invoice.py, client_contacts.py, bank_account.py) and the       *)
(* resource operations built on them.                                      *)
(*                                                                         *)
(* Python values are tagged records [t |-> type name, v |-> payload].      *)
(* A dict is a sequence of <<key, value>> pairs in insertion order, a list *)
(* a sequence of values.  A str payload, an HTTP body and a byte string    *)
(* written to a descriptor are sequences of lexemes (the JSON tokens of    *)
(* the text, or opaque chunks of a text that is not JSON).                 *)
(***************************************************************************)
EXTENDS Integers, Sequences, FiniteSets, TLC

(***************************************************************************)
(* Bounds of the model.                                                    *)
(***************************************************************************)
\* largest number a JSON number lexeme is read as
MaxNum == 2

(***************************************************************************)
(* Python values: a type t and a payload v.  Two values are compared by     *)
(* type first, so that values of different types are unequal.              *)
(***************************************************************************)
None == [t |-> "NoneType", v |-> "None"]

PyInt(n) == [t |-> "int", v |-> n]

PyStr(s) == [t |-> "str", v |-> s]

PyBool(b) == [t |-> "bool", v |-> b]

PyList(xs) == [t |-> "list", v |-> xs]

PyDict(items) == [t |-> "dict", v |-> items]

\* bool(x) of the values a condition of the code tests
Truthy(x) ==
  CASE x.t = "NoneType" -> FALSE
    [] x.t = "bool" -> x.v
    [] x.t = "int" -> x.v # 0
    [] x.t = "str" -> x.v # ""
    [] x.t \in {"list", "dict", "bytes"} -> x.v # <<>>
    [] OTHER -> TRUE

HasKey(d, k) == \E i \in 1..Len(d.v) : d.v[i][1] = k

\* d[k] for a key d has
DictGet(d, k) == d.v[CHOOSE i \in 1..Len(d.v) : d.v[i][1] = k][2]

\* d[k] = x: replaces the value in place, or appends the new key
DictSet(d, k, x) ==
  IF HasKey(d, k)
    THEN PyDict([i \in 1..Len(d.v) |-> IF d.v[i][1] = k THEN <<k, x>> ELSE d.v[i]])
    ELSE PyDict(Append(d.v, <<k, x>>))

(***************************************************************************)
(* Exceptions and the outcome of a call.                                   *)
(***************************************************************************)
Return(x) == [kind |-> "return", value |-> x]

Raise(cls, msg) == [kind |-> "raise", exc |-> [cls |-> cls, msg |-> msg]]

\* superfaktura_api.SuperFakturaAPIException
SuperFakturaAPIException == "SuperFakturaAPIException"

\* superfaktura_api.SuperFakturaAPIMissingCredentialsException
SuperFakturaAPIMissingCredentialsException == "SuperFakturaAPIMissingCredentialsException"

\* raised by Response.json() on a body that is not JSON
JSONDecodeError == "requests.exceptions.JSONDecodeError"

\* raised by requests.get / requests.post when the timeout elapses
Timeout == "requests.exceptions.Timeout"

(***************************************************************************)
(* The records: dataclasses, their construction and their wire maps.       *)
(* An instance is [t |-> class name, v |-> <<field, value>> pairs in       *)
(* declaration order].                                                     *)
(***************************************************************************)
\* dataclasses.MISSING: the field has no default
MISSING == [t |-> "MISSING", v |-> "MISSING"]

\* a field: its name, whether its annotation is Optional[...], its default
Field(name, optional, default) == [name |-> name, optional |-> optional, default |-> default]

\* the fields of the dataclass InvoiceModel, in declaration order
InvoiceModelFields ==
  << Field("add_rounding_item", TRUE, PyInt(0)),
     Field("already_paid", TRUE, None),
     Field("bank_accounts", TRUE, None),
     Field("comment", TRUE, None),
     Field("constant", TRUE, None),
     Field("created", TRUE, None),
     Field("delivery", TRUE, None),
     Field("delivery_type", TRUE, None),
     Field("deposit", TRUE, None),
     Field("discount", TRUE, PyInt(0)),
     Field("discount_total", TRUE, None),
     Field("due", TRUE, None),
     Field("estimate_id", TRUE, None),
     Field("header_comment", TRUE, None),
     Field("internal_comment", TRUE, None),
     Field("invoice_currency", TRUE, None),
     Field("invoice_no_formatted", TRUE, None),
     Field("issued_by", TRUE, None),
     Field("issued_by_email", TRUE, None),
     Field("issued_by_phone", TRUE, None),
     Field("issued_by_web", TRUE, None),
     Field("logo_id", TRUE, None),
     Field("mark_sent", TRUE, None),
     Field("mark_sent_message", TRUE, None),
     Field("mark_sent_subject", TRUE, None),
     Field("name", TRUE, None),
     Field("order_no", TRUE, None),
     Field("parent_id", TRUE, None),
     Field("paydate", TRUE, None),
     Field("payment_type", TRUE, None),
     Field("proforma_id", TRUE, None),
     Field("rounding", TRUE, None),
     Field("sequence_id", TRUE, None),
     Field("specific", TRUE, None),
     Field("tax_document", TRUE, None),
     Field("type", TRUE, None),
     Field("variable", TRUE, None),
     Field("vat_transfer", TRUE, None) >>

\* the fields of the dataclass InvoiceItem
InvoiceItemFields ==
  << Field("name", FALSE, MISSING),
     Field("unit_price", FALSE, MISSING),
     Field("description", TRUE, None),
     Field("discount", TRUE, PyInt(0)),
     Field("discount_description", TRUE, None),
     Field("load_data_from_stock", FALSE, PyInt(0)),
     Field("quantity", TRUE, PyInt(1)),
     Field("sku", TRUE, None),
     Field("stock_item_id", TRUE, None),
     Field("tax", TRUE, None),
     Field("unit", TRUE, None),
     Field("use_document_currency", TRUE, PyInt(0)) >>

\* the fields of the dataclass ClientContactModel
ClientContactModelFields ==
  << Field("name", FALSE, MISSING),
     Field("address", TRUE, None),
     Field("bank_account", TRUE, None),
     Field("bank_code", TRUE, None),
     Field("city", TRUE, None),
     Field("comment", TRUE, None),
     Field("country", TRUE, None),
     Field("country_id", TRUE, None),
     Field("currency", TRUE, None),
     Field("default_variable", TRUE, None),
     Field("delivery_address", TRUE, None),
     Field("delivery_city", TRUE, None),
     Field("delivery_country", TRUE, None),
     Field("delivery_country_id", TRUE, None),
     Field("delivery_name", TRUE, None),
     Field("delivery_phone", TRUE, None),
     Field("delivery_zip", TRUE, None),
     Field("dic", TRUE, None),
     Field("discount", TRUE, None),
     Field("due_date", TRUE, None),
     Field("email", TRUE, None),
     Field("fax", TRUE, None),
     Field("iban", TRUE, None),
     Field("ic_dph", TRUE, None),
     Field("ico", TRUE, None),
     Field("match_address", TRUE, None),
     Field("phone", TRUE, None),
     Field("swift", TRUE, None),
     Field("tags", TRUE, None),
     Field("uuid", TRUE, None),
     Field("zip", TRUE, None),
     Field("update", TRUE, None),
     Field("id", TRUE, None) >>

\* the fields of the dataclass BankAccountModel: none has a default
BankAccountModelFields ==
  << Field("account", TRUE, MISSING),
     Field("bank_code", TRUE, MISSING),
     Field("bank_name", TRUE, MISSING),
     Field("default", TRUE, MISSING),
     Field("iban", TRUE, MISSING),
     Field("show", TRUE, MISSING),
     Field("swift", TRUE, MISSING),
     Field("id", TRUE, MISSING) >>

FieldNames(fields) == {fields[i].name : i \in 1..Len(fields)}

\* the __init__ a dataclass generates, called with keyword arguments
dataclass_init(cls, fields, kwargs) ==
  IF \E i \in 1..Len(kwargs.v) : kwargs.v[i][1] \notin FieldNames(fields)
    THEN Raise("TypeError", [prefix |-> "got an unexpected keyword argument"])
  ELSE IF \E i \in 1..Len(fields) :
            fields[i].default = MISSING /\ ~HasKey(kwargs, fields[i].name)
    THEN Raise("TypeError", [prefix |-> "missing required positional arguments"])
  ELSE Return([t |-> cls,
               v |-> [i \in 1..Len(fields) |->
                        <<fields[i].name,
                          IF HasKey(kwargs, fields[i].name)
                            THEN DictGet(kwargs, fields[i].name)
                            ELSE fields[i].default>>]])

\* dataclasses.asdict of an instance whose fields hold no dataclass
asdict(self) == PyDict(self.v)

IsNotNone(item) == item[2] # None

\* InvoiceModel.as_dict
InvoiceModel_as_dict(self) ==
  LET data == asdict(self) IN PyDict(SelectSeq(data.v, IsNotNone))

IsTruthy(item) == Truthy(item[2])

\* as_dict that drops every falsy value, not only None
InvoiceItem_as_dict_DropsFalsy(self) ==
  LET data == asdict(self) IN PyDict(SelectSeq(data.v, IsTruthy))

\* InvoiceItem.as_dict
InvoiceItem_as_dict(self) ==
  LET data == asdict(self) IN PyDict(SelectSeq(data.v, IsNotNone))

\* ClientContactModel.as_dict
ClientContactModel_as_dict(self) ==
  LET data == asdict(self) IN PyDict(SelectSeq(data.v, IsNotNone))

\* BankAccountModel.as_dict
BankAccountModel_as_dict(self) ==
  LET data == asdict(self) IN PyDict(SelectSeq(data.v, IsNotNone))

IsClientContactField(item) == item[1] \in FieldNames(ClientContactModelFields)

\* ClientContactModel.from_dict
ClientContactModel_from_dict(data) ==
  dataclass_init("ClientContactModel", ClientContactModelFields,
                 PyDict(SelectSeq(data.v, IsClientContactField)))

IsBankAccountField(item) == item[1] \in FieldNames(BankAccountModelFields)

\* BankAccountModel.from_dict
BankAccountModel_from_dict(data) ==
  dataclass_init("BankAccountModel", BankAccountModelFields,
                 PyDict(SelectSeq(data.v, IsBankAccountField)))

\* the fields of a record class
FieldsOf(cls) ==
  CASE cls = "InvoiceModel" -> InvoiceModelFields
    [] cls = "InvoiceItem" -> InvoiceItemFields
    [] cls = "ClientContactModel" -> ClientContactModelFields
    [] cls = "BankAccountModel" -> BankAccountModelFields

\* obj.as_dict()
as_dict(self) ==
  CASE self.t = "InvoiceModel" -> InvoiceModel_as_dict(self)
    [] self.t = "InvoiceItem" -> InvoiceItem_as_dict(self)
    [] self.t = "ClientContactModel" -> ClientContactModel_as_dict(self)
    [] self.t = "BankAccountModel" -> BankAccountModel_as_dict(self)

\* Cls.from_dict(data), for the classes that have it
from_dict(cls, data) ==
  CASE cls = "ClientContactModel" -> ClientContactModel_from_dict(data)
    [] cls = "BankAccountModel" -> BankAccountModel_from_dict(data)

(***************************************************************************)
(* Date.  A date string is given character by character; the datetime of   *)
(* a Date is <<year, month, day>>, and <<>> when the Date is unset.         *)
(***************************************************************************)
\* a str, character by character
PyChars(cs) == [t |-> "chars", v |-> cs]

\* a Date whose attribute date is d
PyDate(d) == [t |-> "Date", v |-> d]

DigitChars == <<"0", "1", "2", "3", "4", "5", "6", "7", "8", "9">>

IsDigit(c) == \E i \in 1..10 : DigitChars[i] = c

DigitOf(c) == (CHOOSE i \in 1..10 : DigitChars[i] = c) - 1

RECURSIVE NumberOfDigits(_)

\* int() of a sequence of digits
NumberOfDigits(cs) ==
  IF cs = <<>> THEN 0
  ELSE NumberOfDigits(SubSeq(cs, 1, Len(cs) - 1)) * 10 + DigitOf(cs[Len(cs)])

\* how many characters at the head of cs the directive %m takes, 0 for no
\* match: 1[0-2] | 0[1-9] | [1-9]
MonthLen(cs) ==
  IF Len(cs) >= 2 /\ ((cs[1] = "1" /\ cs[2] \in {"0", "1", "2"})
                      \/ (cs[1] = "0" /\ IsDigit(cs[2]) /\ cs[2] # "0"))
    THEN 2
  ELSE IF Len(cs) >= 1 /\ IsDigit(cs[1]) /\ cs[1] # "0" THEN 1
  ELSE 0

\* how many characters at the head of cs the directive %d takes, 0 for no
\* match: 3[0-1] | [1-2]\d | 0[1-9] | [1-9] | " "[1-9]
DayLen(cs) ==
  IF Len(cs) >= 2 /\ ((cs[1] = "3" /\ cs[2] \in {"0", "1"})
                      \/ (cs[1] \in {"1", "2"} /\ IsDigit(cs[2]))
                      \/ (cs[1] = "0" /\ IsDigit(cs[2]) /\ cs[2] # "0"))
    THEN 2
  ELSE IF Len(cs) >= 1 /\ IsDigit(cs[1]) /\ cs[1] # "0" THEN 1
  ELSE IF Len(cs) >= 2 /\ cs[1] = " " /\ IsDigit(cs[2]) /\ cs[2] # "0" THEN 2
  ELSE 0

IsLeap(y) == (y % 4 = 0 /\ y % 100 # 0) \/ y % 400 = 0

DaysIn(y, m) ==
  CASE m \in {4, 6, 9, 11} -> 30
    [] m = 2 -> IF IsLeap(y) THEN 29 ELSE 28
    [] OTHER -> 31

\* datetime.strptime(date_str, "%Y-%m-%d"): the datetime, or ValueError when
\* the string does not match the format, has characters left over, or names
\* no day of the calendar
strptime(cs) ==
  IF Len(cs) < 5 \/ (\E i \in 1..4 : ~IsDigit(cs[i])) \/ cs[5] # "-"
    THEN Raise("ValueError", [prefix |-> "does not match format"])
  ELSE CHOOSE out \in
    {IF ml = 0 \/ Len(cs) < 5 + ml + 1 \/ cs[5 + ml + 1] # "-"
       THEN Raise("ValueError", [prefix |-> "does not match format"])
     ELSE CHOOSE out2 \in
       {IF dl = 0 THEN Raise("ValueError", [prefix |-> "does not match format"])
        ELSE IF 6 + ml + dl # Len(cs)
          THEN Raise("ValueError", [prefix |-> "unconverted data remains"])
        ELSE CHOOSE out3 \in
          {IF y < 1 THEN Raise("ValueError", [prefix |-> "year is out of range"])
           ELSE IF d > DaysIn(y, m)
             THEN Raise("ValueError", [prefix |-> "day is out of range for month"])
           ELSE Return(<<y, m, d>>) :
           y \in {NumberOfDigits(SubSeq(cs, 1, 4))},
           m \in {NumberOfDigits(SubSeq(cs, 6, 5 + ml))},
           d \in {NumberOfDigits(
                    IF cs[7 + ml] = " " THEN SubSeq(cs, 8 + ml, 6 + ml + dl)
                    ELSE SubSeq(cs, 7 + ml, 6 + ml + dl))}} : TRUE :
        dl \in {DayLen(SubSeq(cs, 7 + ml, Len(cs)))}} : TRUE :
     ml \in {MonthLen(SubSeq(cs, 6, Len(cs)))}} : TRUE

\* Date._validate_date
validate_date(date_str) ==
  CHOOSE out \in
    {IF r.kind = "return" THEN r
     ELSE Raise("ValueError",
                [prefix |-> "Date must be in format YYYY-MM-DD, got: ",
                 date_str |-> date_str.v]) :
     r \in {strptime(date_str.v)}} : TRUE

\* Date.__init__: Date() is Date(None)
Date_init(date_str) ==
  IF date_str = None \/ date_str.v = <<>>
    THEN Return(PyDate(<<>>))
  ELSE CHOOSE out \in
    {IF r.kind = "raise" THEN r ELSE Return(PyDate(r.value)) :
     r \in {validate_date(date_str)}} : TRUE

\* n in two digits
Pad2(n) == <<DigitChars[(n \div 10) + 1], DigitChars[(n % 10) + 1]>>

RECURSIVE Decimal(_)

\* n in decimal, without leading zeros
Decimal(n) ==
  IF n < 10 THEN <<DigitChars[n + 1]>>
  ELSE Append(Decimal(n \div 10), DigitChars[(n % 10) + 1])

\* the directive %Y of strftime: the C library writes the year in four
\* digits or, as glibc does, without leading zeros
Year(y, pad_year) ==
  IF pad_year THEN Pad2(y \div 100) \o Pad2(y % 100) ELSE Decimal(y)

\* self.date.strftime("%Y-%m-%d")
strftime(d, pad_year) ==
  Year(d[1], pad_year) \o <<"-">> \o Pad2(d[2]) \o <<"-">> \o Pad2(d[3])

\* Date.__str__
Date_str(self, pad_year) ==
  IF self.v # <<>> THEN PyChars(strftime(self.v, pad_year))
  ELSE PyChars(<<"N", "o", "n", "e">>)

\* Date.is_set
Date_is_set(self) == self.v # <<>>

\* Date.to_dict
Date_to_dict(self, pad_year) ==
  IF self.v # <<>> THEN PyChars(strftime(self.v, pad_year)) ELSE None

\* Date.to_json
Date_to_json(self, pad_year) == Date_to_dict(self, pad_year)

(***************************************************************************)
(* JSON text, as requests' Response.json() reads it and json.dumps writes  *)
(* it.  A text is a sequence of lexemes.                                   *)
(***************************************************************************)
\* the strings that occur in JSON texts of the model
StringLiterals ==
  {"data", "test", "error", "error_message", "not found", "Example", "x",
   "Client created", "Invoice", "InvoiceItem", "Client", "token", "id", "1",
   "BankAccounts", "BankAccount", "SK123", "language", "eng", "InvoiceSetting", "2025-04-01"}
    \cup FieldNames(InvoiceModelFields) \cup FieldNames(InvoiceItemFields)
    \cup FieldNames(ClientContactModelFields) \cup FieldNames(BankAccountModelFields)

Quote(s) == "\"" \o s \o "\""

\* the string lexemes and the string each one denotes
StringLexemes == {Quote(s) : s \in StringLiterals}

StringOfLexeme == [x \in StringLexemes |-> CHOOSE s \in StringLiterals : Quote(s) = x]

IsStringLexeme(x) == x \in StringLexemes

StringOf(x) == StringOfLexeme[x]

\* the number lexemes and the number each one denotes
NumberLexemes == {ToString(n) : n \in 0..MaxNum}

NumberOfLexeme == [x \in NumberLexemes |-> CHOOSE n \in 0..MaxNum : ToString(n) = x]

IsNumberLexeme(x) == x \in NumberLexemes

NumberOf(x) == NumberOfLexeme[x]

\* the result of a failed parse
ParseFail == [ok |-> FALSE, val |-> None, rest |-> <<>>]

ParseOk(val, rest) == [ok |-> TRUE, val |-> val, rest |-> rest]

RECURSIVE ParseValue(_), ParseElements(_), ParseMembers(_)

\* one JSON value at the head of toks; CHOOSE r \in {e : p \in {x}} : TRUE is
\* LET p == x IN e with x evaluated once
ParseValue(toks) ==
  IF toks = <<>> THEN ParseFail
  ELSE CHOOSE out \in
    {CASE h = "null" -> ParseOk(None, r)
       [] h = "true" -> ParseOk(PyBool(TRUE), r)
       [] h = "false" -> ParseOk(PyBool(FALSE), r)
       [] IsNumberLexeme(h) -> ParseOk(PyInt(NumberOf(h)), r)
       [] IsStringLexeme(h) -> ParseOk(PyStr(StringOf(h)), r)
       [] h = "[" ->
            IF r # <<>> /\ Head(r) = "]"
              THEN ParseOk(PyList(<<>>), Tail(r))
              ELSE ParseElements([toks |-> r, acc |-> <<>>])
       [] h = "{" ->
            IF r # <<>> /\ Head(r) = "}"
              THEN ParseOk(PyDict(<<>>), Tail(r))
              ELSE ParseMembers([toks |-> r, acc |-> PyDict(<<>>)])
       [] OTHER -> ParseFail :
     h \in {Head(toks)}, r \in {Tail(toks)}} : TRUE

\* value ("," value)* "]", after the elements st.acc
ParseElements(st) ==
  CHOOSE out \in
    {IF ~p.ok \/ p.rest = <<>> THEN ParseFail
     ELSE CASE Head(p.rest) = "]" ->
                 ParseOk(PyList(Append(s.acc, p.val)), Tail(p.rest))
            [] Head(p.rest) = "," ->
                 ParseElements([toks |-> Tail(p.rest), acc |-> Append(s.acc, p.val)])
            [] OTHER -> ParseFail :
     s \in {st}, p \in {ParseValue(st.toks)}} : TRUE

\* string ":" value ("," string ":" value)* "}", after the members st.acc
ParseMembers(st) ==
  CHOOSE out \in
    {IF Len(s.toks) < 2 \/ ~IsStringLexeme(s.toks[1]) \/ s.toks[2] # ":"
       THEN ParseFail
     ELSE CHOOSE out2 \in
       {IF ~p.ok \/ p.rest = <<>> THEN ParseFail
        ELSE CASE Head(p.rest) = "}" ->
                    ParseOk(DictSet(s.acc, StringOf(s.toks[1]), p.val), Tail(p.rest))
               [] Head(p.rest) = "," ->
                    ParseMembers([toks |-> Tail(p.rest),
                                  acc |-> DictSet(s.acc, StringOf(s.toks[1]), p.val)])
               [] OTHER -> ParseFail :
        p \in {ParseValue(Tail(Tail(s.toks)))}} : TRUE :
     s \in {st}} : TRUE

\* Response.json() / json.loads: the value of the text, or no value
JsonParse(text) ==
  CHOOSE out \in
    {IF p.ok /\ p.rest = <<>> THEN [ok |-> TRUE, val |-> p.val]
     ELSE [ok |-> FALSE, val |-> None] :
     p \in {ParseValue(text)}} : TRUE

\* whether the text is one JSON document
IsJson(text) == JsonParse(text).ok

\* the value of a JSON document
JsonLoads(text) == JsonParse(text).val

(***************************************************************************)
(* The environment and the construction of a client.                       *)
(***************************************************************************)
EnvNames ==
  {"SUPERFAKTURA_API_KEY", "SUPERFAKTURA_API_URL", "SUPERFAKTURA_API_EMAIL",
   "SUPERFAKTURA_API_COMPANY_ID"}

\* the value a variable has when it is set to something
EnvValue(name) ==
  CASE name = "SUPERFAKTURA_API_KEY" -> "test_key"
    [] name = "SUPERFAKTURA_API_URL" -> "https://api.superfaktura.cz"
    [] name = "SUPERFAKTURA_API_EMAIL" -> "test_email"
    [] name = "SUPERFAKTURA_API_COMPANY_ID" -> "test_company_id"

\* the environments a process can run in, after load_dotenv(): each variable
\* is absent, empty or set
Environments ==
  [EnvNames -> {"absent", "empty", "set"}]

\* os.getenv(name)
getenv(environ, name) ==
  CASE environ[name] = "absent" -> None
    [] environ[name] = "empty" -> PyStr("")
    [] environ[name] = "set" -> PyStr(EnvValue(name))

\* the classes whose constructor is SuperFakturaAPI.__init__
ClientClasses == {"SuperFakturaAPI", "Invoice", "ClientContact", "BankAccount"}

NoClient == [cls |-> "none"]

\* what a transport call does: the requests it sent, its outcome
Effect(sent, outcome) == [sent |-> sent, outcome |-> outcome]

\* __init__ without the test of the company id
init_NoCompanyIdCheck(cls, environ) ==
  LET _api_key == getenv(environ, "SUPERFAKTURA_API_KEY")
      _api_url == getenv(environ, "SUPERFAKTURA_API_URL")
      _api_mail == getenv(environ, "SUPERFAKTURA_API_EMAIL")
      _api_company_id == getenv(environ, "SUPERFAKTURA_API_COMPANY_ID")
  IN IF ~Truthy(_api_key) \/ ~Truthy(_api_url) \/ ~Truthy(_api_mail)
       THEN Effect(<<>>,
              Raise(SuperFakturaAPIMissingCredentialsException,
                    [prefix |-> "Please ensure, that necessary credentials are set. Please see README.md"]))
       ELSE Effect(<<>>,
              Return([cls |-> cls,
                      _api_url |-> _api_url.v,
                      _auth_header |->
                        << <<"Authorization",
                             "SFAPI email=" \o _api_mail.v \o "&apikey=" \o _api_key.v
                               \o "&company_id=" \o _api_company_id.v>> >>]))

\* SuperFakturaAPI.__init__: self is the object under construction, which is
\* bound to a name only when __init__ returns
init(cls, environ) ==
  LET _api_key == getenv(environ, "SUPERFAKTURA_API_KEY")
      _api_url == getenv(environ, "SUPERFAKTURA_API_URL")
      _api_mail == getenv(environ, "SUPERFAKTURA_API_EMAIL")
      _api_company_id == getenv(environ, "SUPERFAKTURA_API_COMPANY_ID")
  IN IF ~Truthy(_api_key) \/ ~Truthy(_api_url) \/ ~Truthy(_api_mail)
          \/ ~Truthy(_api_company_id)
       THEN Effect(<<>>,
              Raise(SuperFakturaAPIMissingCredentialsException,
                    [prefix |-> "Please ensure, that necessary credentials are set. Please see README.md"]))
       ELSE Effect(<<>>,
              Return([cls |-> cls,
                      _api_url |-> _api_url.v,
                      _auth_header |->
                        << <<"Authorization",
                             "SFAPI email=" \o _api_mail.v \o "&apikey=" \o _api_key.v
                               \o "&company_id=" \o _api_company_id.v>> >>]))

(***************************************************************************)
(* The three transport operations.  net is what the network does with the  *)
(* one request: a response, or no response within the timeout.             *)
(***************************************************************************)
DefaultTimeout == 5

NetTimeout == [kind |-> "timeout"]

Response(status_code, content) ==
  [kind |-> "response", status_code |-> status_code, content |-> content]

\* get that takes every 2xx status for a success
get_Accepts2xx(self, endpoint, timeout, net) ==
  CHOOSE out \in
    {IF net.kind = "timeout"
       THEN Effect(<<req>>, Raise(Timeout, [prefix |-> "timed out"]))
     ELSE IF net.status_code >= 200 /\ net.status_code < 300
       THEN CHOOSE out2 \in
              {IF json.ok
                 THEN Effect(<<req>>, Return(json.val))
                 ELSE Effect(<<req>>,
                        Raise(SuperFakturaAPIException,
                              [prefix |-> "Unable to decode response as JSON",
                               content |-> net.content,
                               cause |-> JSONDecodeError])) :
               json \in {JsonParse(net.content)}} : TRUE
     ELSE Effect(<<req>>,
            Raise(SuperFakturaAPIException,
                  [prefix |-> "Get status code",
                   status_code |-> net.status_code,
                   content |-> net.content])) :
     req \in {[method |-> "GET", url |-> self._api_url \o "/" \o endpoint,
               headers |-> self._auth_header, timeout |-> timeout]}} : TRUE

\* get without the except clause: the parse failure of Response.json() escapes
get_UncaughtDecode(self, endpoint, timeout, net) ==
  CHOOSE out \in
    {IF net.kind = "timeout"
       THEN Effect(<<req>>, Raise(Timeout, [prefix |-> "timed out"]))
     ELSE IF net.status_code = 200
       THEN CHOOSE out2 \in
              {IF json.ok
                 THEN Effect(<<req>>, Return(json.val))
                 ELSE Effect(<<req>>, Raise(JSONDecodeError, [prefix |-> "Expecting value"])) :
               json \in {JsonParse(net.content)}} : TRUE
     ELSE Effect(<<req>>,
            Raise(SuperFakturaAPIException,
                  [prefix |-> "Get status code",
                   status_code |-> net.status_code,
                   content |-> net.content])) :
     req \in {[method |-> "GET", url |-> self._api_url \o "/" \o endpoint,
               headers |-> self._auth_header, timeout |-> timeout]}} : TRUE

\* SuperFakturaAPI.get
get(self, endpoint, timeout, net) ==
  CHOOSE out \in
    {IF net.kind = "timeout"
       THEN Effect(<<req>>, Raise(Timeout, [prefix |-> "timed out"]))
     ELSE IF net.status_code = 200
       THEN CHOOSE out2 \in
              {IF json.ok
                 THEN Effect(<<req>>, Return(json.val))
                 ELSE Effect(<<req>>,
                        Raise(SuperFakturaAPIException,
                              [prefix |-> "Unable to decode response as JSON",
                               content |-> net.content,
                               cause |-> JSONDecodeError])) :
               json \in {JsonParse(net.content)}} : TRUE
     ELSE Effect(<<req>>,
            Raise(SuperFakturaAPIException,
                  [prefix |-> "Get status code",
                   status_code |-> net.status_code,
                   content |-> net.content])) :
     req \in {[method |-> "GET", url |-> self._api_url \o "/" \o endpoint,
               headers |-> self._auth_header, timeout |-> timeout]}} : TRUE

\* post that returns the text of the response, not its decoded JSON
post_ReturnsText(self, endpoint, data, timeout, net) ==
  CHOOSE out \in
    {IF net.kind = "timeout"
       THEN Effect(<<req>>, Raise(Timeout, [prefix |-> "timed out"]))
     ELSE CHOOSE out2 \in
       {IF net.status_code = 200
          THEN Effect(<<req>>, Return(PyStr(net.content)))
        ELSE IF json.ok
          THEN Effect(<<req>>,
                 Raise(SuperFakturaAPIException,
                       [prefix |-> "Post status code",
                        status_code |-> net.status_code,
                        json |-> json.val]))
          ELSE Effect(<<req>>, Raise(JSONDecodeError, [prefix |-> "Expecting value"])) :
        json \in {JsonParse(net.content)}} : TRUE :
     req \in {[method |-> "POST", url |-> self._api_url \o "/" \o endpoint,
               headers |-> self._auth_header, data |-> << <<"data", data>> >>,
               timeout |-> timeout]}} : TRUE

\* post that submits the payload under a form field named json
post_JsonField(self, endpoint, data, timeout, net) ==
  CHOOSE out \in
    {IF net.kind = "timeout"
       THEN Effect(<<req>>, Raise(Timeout, [prefix |-> "timed out"]))
     ELSE CHOOSE out2 \in
       {IF net.status_code = 200
          THEN IF json.ok
                 THEN Effect(<<req>>, Return(json.val))
                 ELSE Effect(<<req>>, Raise(JSONDecodeError, [prefix |-> "Expecting value"]))
        ELSE IF json.ok
          THEN Effect(<<req>>,
                 Raise(SuperFakturaAPIException,
                       [prefix |-> "Post status code",
                        status_code |-> net.status_code,
                        json |-> json.val]))
          ELSE Effect(<<req>>, Raise(JSONDecodeError, [prefix |-> "Expecting value"])) :
        json \in {JsonParse(net.content)}} : TRUE :
     req \in {[method |-> "POST", url |-> self._api_url \o "/" \o endpoint,
               headers |-> self._auth_header, data |-> << <<"json", data>> >>,
               timeout |-> timeout]}} : TRUE

\* post that sends the request a second time when the first one fails
post_RetryOnFailure(self, endpoint, data, timeout, net) ==
  CHOOSE out \in
    {IF net.kind = "timeout"
       THEN Effect(<<req, req>>, Raise(Timeout, [prefix |-> "timed out"]))
     ELSE CHOOSE out2 \in
       {IF net.status_code = 200
          THEN IF json.ok
                 THEN Effect(<<req>>, Return(json.val))
                 ELSE Effect(<<req>>, Raise(JSONDecodeError, [prefix |-> "Expecting value"]))
        ELSE IF json.ok
          THEN Effect(<<req, req>>,
                 Raise(SuperFakturaAPIException,
                       [prefix |-> "Post status code",
                        status_code |-> net.status_code,
                        json |-> json.val]))
          ELSE Effect(<<req, req>>, Raise(JSONDecodeError, [prefix |-> "Expecting value"])) :
        json \in {JsonParse(net.content)}} : TRUE :
     req \in {[method |-> "POST", url |-> self._api_url \o "/" \o endpoint,
               headers |-> self._auth_header, data |-> << <<"data", data>> >>,
               timeout |-> timeout]}} : TRUE

\* SuperFakturaAPI.post: Response.json() is called without an except clause, on
\* status 200 for the result and on any other status for the message
post(self, endpoint, data, timeout, net) ==
  CHOOSE out \in
    {IF net.kind = "timeout"
       THEN Effect(<<req>>, Raise(Timeout, [prefix |-> "timed out"]))
     ELSE CHOOSE out2 \in
       {IF net.status_code = 200
          THEN IF json.ok
                 THEN Effect(<<req>>, Return(json.val))
                 ELSE Effect(<<req>>, Raise(JSONDecodeError, [prefix |-> "Expecting value"]))
        ELSE IF json.ok
          THEN Effect(<<req>>,
                 Raise(SuperFakturaAPIException,
                       [prefix |-> "Post status code",
                        status_code |-> net.status_code,
                        json |-> json.val]))
          ELSE Effect(<<req>>, Raise(JSONDecodeError, [prefix |-> "Expecting value"])) :
        json \in {JsonParse(net.content)}} : TRUE :
     req \in {[method |-> "POST", url |-> self._api_url \o "/" \o endpoint,
               headers |-> self._auth_header, data |-> << <<"data", data>> >>,
               timeout |-> timeout]}} : TRUE

(***************************************************************************)
(* A descriptor (IO[bytes]): how it was opened, the chunks written to it   *)
(* so far, one per write() call.                                           *)
(***************************************************************************)
Descriptor(mode, written) == [mode |-> mode, written |-> written]

NoDescriptor == Descriptor("none", <<>>)

\* io: calling a method, even an inquiry, on a closed stream is undefined;
\* the built-in streams raise ValueError, another stream may answer
ClosedBehaviours == {"ValueError", "False", "True"}

\* download that writes the body chunk by chunk
download_Chunked(self, endpoint, descriptor, timeout, net, closed) ==
  LET url == self._api_url \o "/" \o endpoint
      req == [method |-> "GET", url |-> url, headers |-> self._auth_header,
              timeout |-> timeout]
      Eff(outcome, d) == [sent |-> <<req>>, outcome |-> outcome, descriptor |-> d]
      NotWritable ==
        Raise(SuperFakturaAPIException,
              [prefix |-> "Descriptor is not writable", descriptor |-> descriptor.mode])
  IN IF net.kind = "timeout"
       THEN Eff(Raise(Timeout, [prefix |-> "timed out"]), descriptor)
     ELSE IF net.status_code = 200
       THEN IF descriptor.mode = "wb"
              THEN Eff(Return(None),
                       Descriptor("wb",
                         descriptor.written
                           \o [i \in 1..Len(net.content) |-> <<net.content[i]>>]))
              ELSE Eff(NotWritable, descriptor)
     ELSE Eff(Raise(SuperFakturaAPIException,
                    [prefix |-> "Download status code",
                     status_code |-> net.status_code,
                     content |-> net.content]),
              descriptor)

\* download that requests the endpoint without the base URL
download_BareEndpoint(self, endpoint, descriptor, timeout, net, closed) ==
  LET url == endpoint
      req == [method |-> "GET", url |-> url, headers |-> self._auth_header,
              timeout |-> timeout]
      Eff(outcome, d) == [sent |-> <<req>>, outcome |-> outcome, descriptor |-> d]
      NotWritable ==
        Raise(SuperFakturaAPIException,
              [prefix |-> "Descriptor is not writable", descriptor |-> descriptor.mode])
      ClosedFile == Raise("ValueError", [prefix |-> "I/O operation on closed file"])
  IN IF net.kind = "timeout"
       THEN Eff(Raise(Timeout, [prefix |-> "timed out"]), descriptor)
     ELSE IF net.status_code = 200
       THEN CASE descriptor.mode = "wb" ->
                   Eff(Return(None),
                       Descriptor("wb", Append(descriptor.written, net.content)))
              [] descriptor.mode = "rb" -> Eff(NotWritable, descriptor)
              [] descriptor.mode = "closed" /\ closed = "ValueError" ->
                   Eff(ClosedFile, descriptor)
              [] descriptor.mode = "closed" /\ closed = "False" ->
                   Eff(NotWritable, descriptor)
              [] descriptor.mode = "closed" /\ closed = "True" ->
                   Eff(ClosedFile, descriptor)
     ELSE Eff(Raise(SuperFakturaAPIException,
                    [prefix |-> "Download status code",
                     status_code |-> net.status_code,
                     content |-> net.content]),
              descriptor)

\* SuperFakturaAPI.download; closed is what writable() does on a closed stream
download(self, endpoint, descriptor, timeout, net, closed) ==
  LET url == self._api_url \o "/" \o endpoint
      req == [method |-> "GET", url |-> url, headers |-> self._auth_header,
              timeout |-> timeout]
      Eff(outcome, d) == [sent |-> <<req>>, outcome |-> outcome, descriptor |-> d]
      NotWritable ==
        Raise(SuperFakturaAPIException,
              [prefix |-> "Descriptor is not writable", descriptor |-> descriptor.mode])
      ClosedFile == Raise("ValueError", [prefix |-> "I/O operation on closed file"])
  IN IF net.kind = "timeout"
       THEN Eff(Raise(Timeout, [prefix |-> "timed out"]), descriptor)
     ELSE IF net.status_code = 200
       THEN CASE descriptor.mode = "wb" ->
                   Eff(Return(None),
                       Descriptor("wb", Append(descriptor.written, net.content)))
              [] descriptor.mode = "rb" -> Eff(NotWritable, descriptor)
              [] descriptor.mode = "closed" /\ closed = "ValueError" ->
                   Eff(ClosedFile, descriptor)
              [] descriptor.mode = "closed" /\ closed = "False" ->
                   Eff(NotWritable, descriptor)
              [] descriptor.mode = "closed" /\ closed = "True" ->
                   Eff(ClosedFile, descriptor)
     ELSE Eff(Raise(SuperFakturaAPIException,
                    [prefix |-> "Download status code",
                     status_code |-> net.status_code,
                     content |-> net.content]),
              descriptor)

(***************************************************************************)
(* json.dumps, and the operations of the code on decoded responses.        *)
(***************************************************************************)
RECURSIVE JsonDumps(_), DumpElements(_), DumpMembers(_), Concat(_)

\* "".join(cs)
Concat(cs) == IF cs = <<>> THEN "" ELSE Concat(SubSeq(cs, 1, Len(cs) - 1)) \o cs[Len(cs)]

\* DateEncoder.default(o) for a Date o; the dates of the records have a year
\* of four digits, which every C library writes alike
DateEncoder_default(o) == Date_to_json(o, TRUE)

\* json.dumps(x, cls=DateEncoder): the text as lexemes; also json.dumps(x)
\* for an x that holds no Date
JsonDumps(x) ==
  CASE x.t = "NoneType" -> <<"null">>
    [] x.t = "Date" -> JsonDumps(DateEncoder_default(x))
    [] x.t = "chars" -> <<Quote(Concat(x.v))>>
    [] x.t = "bool" -> IF x.v THEN <<"true">> ELSE <<"false">>
    [] x.t = "int" -> <<ToString(x.v)>>
    [] x.t = "str" -> <<Quote(x.v)>>
    [] x.t = "list" -> <<"[">> \o DumpElements(x.v) \o <<"]">>
    [] x.t = "dict" -> <<"{">> \o DumpMembers(x.v) \o <<"}">>

DumpElements(xs) ==
  IF xs = <<>> THEN <<>>
  ELSE IF Len(xs) = 1 THEN JsonDumps(xs[1])
  ELSE JsonDumps(xs[1]) \o <<",">> \o DumpElements(Tail(xs))

DumpMembers(items) ==
  IF items = <<>> THEN <<>>
  ELSE LET m == <<Quote(items[1][1]), ":">> \o JsonDumps(items[1][2])
       IN IF Len(items) = 1 THEN m ELSE m \o <<",">> \o DumpMembers(Tail(items))

\* x[k] for a string key k
Subscript(x, k) ==
  CASE x.t = "dict" ->
         IF HasKey(x, k) THEN Return(DictGet(x, k))
         ELSE Raise("KeyError", [prefix |-> k])
    [] x.t \in {"list", "str"} ->
         Raise("TypeError", [prefix |-> "indices must be integers"])
    [] OTHER -> Raise("TypeError", [prefix |-> "object is not subscriptable"])

\* k in x for a string key k; no string of the model contains another one,
\* so that k is a substring of a string exactly when it is that string
Contains(x, k) ==
  CASE x.t = "dict" -> Return(PyBool(HasKey(x, k)))
    [] x.t = "list" -> Return(PyBool(\E i \in 1..Len(x.v) : x.v[i] = PyStr(k)))
    [] x.t = "str" -> Return(PyBool(x.v = k))
    [] OTHER -> Raise("TypeError", [prefix |-> "argument is not iterable"])

\* int(x)
int(x) ==
  CASE x.t = "int" -> Return(x)
    [] x.t = "bool" -> Return(PyInt(IF x.v THEN 1 ELSE 0))
    [] x.t = "str" ->
         IF IsNumberLexeme(x.v) THEN Return(PyInt(NumberOf(x.v)))
         ELSE Raise("ValueError", [prefix |-> "invalid literal for int() with base 10"])
    [] OTHER -> Raise("TypeError", [prefix |-> "int() argument must be a string or a number"])

(***************************************************************************)
(* The resource clients.                                                   *)
(***************************************************************************)
\* ClientContact.add_contact
add_contact(self, contact, net) ==
  CHOOSE out \in
    {IF e.outcome.kind = "raise" THEN e
     ELSE CHOOSE out2 \in
       {IF message.kind = "raise" THEN Effect(e.sent, message)
        ELSE Effect(e.sent, Return(PyBool(message.value = PyStr("Client created")))) :
        message \in {Subscript(e.outcome.value, "error_message")}} : TRUE :
     e \in {post(self, "clients/create",
                 JsonDumps(PyDict(<< <<"Client", ClientContactModel_as_dict(contact)>> >>)),
                 DefaultTimeout, net)}} : TRUE

\* BankAccount.list
BankAccount_list(self, net) == get(self, "bank_accounts/index", DefaultTimeout, net)

NoDefaultBankAccountException == "NoDefaultBankAccountException"

\* iter(x): the elements a for loop over x visits; a dict gives its keys, and
\* a string its characters, each a string again
Iter(x) ==
  CASE x.t = "list" -> Return(x.v)
    [] x.t = "dict" -> Return([i \in 1..Len(x.v) |-> PyStr(x.v[i][1])])
    [] x.t = "str" -> Return(IF x.v = "" THEN <<>> ELSE <<PyStr(x.v)>>)
    [] OTHER -> Raise("TypeError", [prefix |-> "object is not iterable"])

RECURSIVE BankAccount_default_loop(_)

\* the for loop of BankAccount.default over the accounts left to visit
BankAccount_default_loop(accounts) ==
  IF accounts = <<>>
    THEN Raise(NoDefaultBankAccountException, [prefix |-> "No default bank account found"])
  ELSE CHOOSE out \in
    {IF account.kind = "raise" THEN account
     ELSE CHOOSE out2 \in
       {IF flag.kind = "raise" THEN flag
        ELSE IF Truthy(flag.value) THEN BankAccountModel_from_dict(account.value)
        ELSE BankAccount_default_loop(Tail(accounts)) :
        flag \in {Subscript(account.value, "default")}} : TRUE :
     account \in {Subscript(Head(accounts), "BankAccount")}} : TRUE

\* BankAccount.default
BankAccount_default(self, net) ==
  CHOOSE out \in
    {IF e.outcome.kind = "raise" THEN e
     ELSE CHOOSE out2 \in
       {IF accounts.kind = "raise" THEN Effect(e.sent, accounts)
        ELSE CHOOSE out3 \in
          {IF it.kind = "raise" THEN Effect(e.sent, it)
           ELSE Effect(e.sent, BankAccount_default_loop(it.value)) :
           it \in {Iter(accounts.value)}} : TRUE :
        accounts \in {Subscript(e.outcome.value, "BankAccounts")}} : TRUE :
     e \in {BankAccount_list(self, net)}} : TRUE

\* InvoiceRespModel(error, error_message, invoice_id, invoice_token)
InvoiceRespModel(error, error_message, invoice_id, invoice_token) ==
  [t |-> "InvoiceRespModel",
   v |-> << <<"error", error>>, <<"error_message", error_message>>,
            <<"invoice_id", invoice_id>>, <<"invoice_token", invoice_token>> >>]

\* Invoice.add, from the response record on: the id and the token of
\* resp["data"]["Invoice"] when resp has them
Invoice_add_data(invoice_resp, resp) ==
  CHOOSE out \in
    {IF has_data.kind = "raise" THEN has_data
     ELSE IF ~has_data.value.v THEN Return(invoice_resp)
     ELSE CHOOSE out2 \in
       {IF has_invoice.kind = "raise" THEN has_invoice
        ELSE IF ~has_invoice.value.v THEN Return(invoice_resp)
        ELSE CHOOSE out3 \in
          {IF inv.kind = "raise" THEN inv
           ELSE CHOOSE out4 \in
             {IF id.kind = "raise" THEN id
              ELSE CHOOSE out5 \in
                {IF invoice_id.kind = "raise" THEN invoice_id
                 ELSE IF token.kind = "raise" THEN token
                 ELSE Return(InvoiceRespModel(invoice_resp.v[1][2], invoice_resp.v[2][2],
                                              invoice_id.value, token.value)) :
                 invoice_id \in {int(id.value)},
                 token \in {Subscript(inv.value, "token")}} : TRUE :
              id \in {Subscript(inv.value, "id")}} : TRUE :
           inv \in {Subscript(DictGet(resp, "data"), "Invoice")}} : TRUE :
        has_invoice \in {Contains(DictGet(resp, "data"), "Invoice")}} : TRUE :
     has_data \in {Contains(resp, "data")}} : TRUE

\* Invoice.add, from the decoded response on
Invoice_add_response(resp) ==
  CHOOSE out \in
    {IF error.kind = "raise" THEN error
     ELSE IF error_message.kind = "raise" THEN error_message
     ELSE Invoice_add_data(
            InvoiceRespModel(error.value, error_message.value, None, None), resp) :
     error \in {Subscript(resp, "error")},
     error_message \in {Subscript(resp, "error_message")}} : TRUE

\* Invoice.add
Invoice_add(self, invoice_model, items, contact, net) ==
  CHOOSE out \in
    {IF e.outcome.kind = "raise" THEN e
     ELSE Effect(e.sent, Invoice_add_response(e.outcome.value)) :
     e \in {post(self, "invoices/create",
                 JsonDumps(PyDict(
                   << <<"Invoice", InvoiceModel_as_dict(invoice_model)>>,
                      <<"InvoiceItem",
                        PyList([i \in 1..Len(items) |-> InvoiceItem_as_dict(items[i])])>>,
                      <<"Client", ClientContactModel_as_dict(contact)>> >>)),
                 DefaultTimeout, net)}} : TRUE

\* invoice.add(invoice_model=, items=, contact=, invoice_settings=), the call
\* of examples/add_invoice.py: add has no parameter invoice_settings, so the
\* call fails before the body of add runs
Invoice_add_with_settings(self, invoice_model, items, contact, invoice_settings) ==
  Effect(<<>>, Raise("TypeError", [prefix |-> "got an unexpected keyword argument"]))

\* str(x), as an f-string formats x
str(x) ==
  CASE x.t = "str" -> x.v
    [] x.t = "int" -> ToString(x.v)
    [] x.t = "bool" -> IF x.v THEN "True" ELSE "False"
    [] x.t = "NoneType" -> "None"

\* self.get(endpoint, data_format=DataFormat.PDF): get has the parameters
\* endpoint and timeout only, so the call fails before the body of get runs
get_with_data_format(self, endpoint, data_format) ==
  Effect(<<>>, Raise("TypeError", [prefix |-> "got an unexpected keyword argument"]))

\* Invoice.get_pdf
get_pdf(self, invoice, language) ==
  CHOOSE out \in
    {IF e.outcome.kind = "raise" THEN e
     ELSE Effect(e.sent, Subscript(e.outcome.value, "pdf")) :
     e \in {get_with_data_format(
              self,
              language \o "/invoices/pdf/" \o str(invoice.v[3][2])
                \o "/token:" \o str(invoice.v[4][2]),
              "PDF")}} : TRUE

\* invoice.get_pdf(invoice=, descriptor=, language=), the call of
\* examples/add_invoice.py: get_pdf has no parameter descriptor
get_pdf_with_descriptor(self, invoice, descriptor, language) ==
  [sent |-> <<>>,
   outcome |-> Raise("TypeError", [prefix |-> "got an unexpected keyword argument"]),
   descriptor |-> descriptor]

(***************************************************************************)
(* The inputs of the model.                                                *)
(***************************************************************************)
\* most fields a caller sets besides the mandatory ones
MaxSet == 1

\* most line items of an invoice
MaxItems == 1

Endpoints == {"test_endpoint", "invoices/create"}

Statuses == {200, 201, 404}

\* bodies a server answers with: JSON documents, and texts that are not JSON
Bodies ==
  { <<"{", Quote("data"), ":", Quote("test"), "}">>,
    <<"{", Quote("error"), ":", "0", ",", Quote("error_message"), ":",
      Quote("Client created"), ",", Quote("data"), ":", "{", Quote("Invoice"), ":",
      "{", Quote("id"), ":", Quote("1"), ",", Quote("token"), ":", Quote("x"),
      "}", "}", "}">>,
    <<"[", "1", ",", "null", "]">>,
    <<>>,
    <<"%PDF-1.4", "%%EOF">> }

NetOutcomes ==
  {NetTimeout} \cup {Response(sc, b) : sc \in Statuses, b \in Bodies}

\* JSON strings a caller of post() submits
Payloads ==
  { <<"{", Quote("name"), ":", Quote("Example"), "}">>,
    <<"[", "]">> }

\* descriptors a caller of download() passes: opened for writing, opened for
\* reading only, or closed; fresh or already written to
Descriptors ==
  {Descriptor(m, w) : m \in {"wb", "rb", "closed"}, w \in {<<>>, << <<"old">> >>}}

\* a descriptor with what its writable() does when it is closed
DescriptorCases ==
  {<<d, c>> \in Descriptors \X ClosedBehaviours :
     d.mode = "closed" \/ c = "ValueError"}

\* values a caller gives a field
FieldValues == {None, PyInt(0), PyStr("x")}

\* the fields annotated Optional[Date]
DateFields == {"created", "delivery", "due", "paydate"}

\* Date() and Date("2025-04-01")
DateValues == {PyDate(<<>>), PyDate(<<2025, 4, 1>>)}

\* values a caller gives the field
ValuesOf(field) ==
  IF field.name \in DateFields THEN {None} \cup DateValues ELSE FieldValues

RECURSIVE SmallSubsets(_, _)

\* the subsets of X of at most k elements
SmallSubsets(X, k) ==
  IF k = 0 THEN {{}}
  ELSE LET P == SmallSubsets(X, k - 1) IN P \cup {s \cup {x} : s \in P, x \in X}

\* the keyword arguments that give the fields of the indexes DOMAIN f the
\* values f, in declaration order
KwargsOf(fields, f) ==
  LET idx == DOMAIN f
      nth(k) == CHOOSE i \in idx : Cardinality({j \in idx : j < i}) = k - 1
  IN PyDict([k \in 1..Cardinality(idx) |-> <<fields[nth(k)].name, f[nth(k)]>>])

\* the keyword arguments a caller constructs a record with: a value for each
\* field without default and for at most MaxSet others, None only for a
\* field annotated Optional
Kwargs(fields) ==
  LET mandatory == {i \in 1..Len(fields) : fields[i].default = MISSING}
      optional == {i \in 1..Len(fields) : fields[i].default # MISSING}
  IN UNION {{KwargsOf(fields, f) :
                f \in {g \in [mandatory \cup s -> FieldValues \cup DateValues] :
                         \A i \in DOMAIN g :
                           /\ g[i] \in ValuesOf(fields[i])
                           /\ g[i] = None => fields[i].optional}} :
              s \in SmallSubsets(optional, MaxSet)}

\* the contacts, invoices and line items the resource operations are called with
SampleContacts ==
  {dataclass_init("ClientContactModel", ClientContactModelFields, PyDict(kw)).value :
     kw \in { << <<"name", PyStr("Example")>> >>,
              << <<"name", PyStr("x")>>, <<"discount", PyInt(0)>>, <<"email", None>> >> }}

SampleInvoices ==
  {dataclass_init("InvoiceModel", InvoiceModelFields, PyDict(kw)).value :
     kw \in { <<>>,
              << <<"name", PyStr("x")>>, <<"discount", None>> >>,
              << <<"created", PyDate(<<2025, 4, 1>>)>>, <<"due", PyDate(<<>>)>> >> }}

SampleItems ==
  {dataclass_init("InvoiceItem", InvoiceItemFields, PyDict(kw)).value :
     kw \in { << <<"name", PyStr("x")>>, <<"unit_price", PyInt(1)>> >>,
              << <<"name", PyStr("Example")>>, <<"unit_price", PyInt(0)>>,
                 <<"quantity", PyInt(2)>> >> }}

\* the lists of at most MaxItems line items
ItemLists == UNION {[1..n -> SampleItems] : n \in 0..MaxItems}

\* keys of a wire map a server sends, in the order it sends them: modified
\* is a field of no record, name of the contact only, default of the bank
\* account only, iban of both
WireKeys == <<[name |-> "modified"], [name |-> "name"], [name |-> "default"],
              [name |-> "iban"]>>

WireValues == {PyInt(1), PyStr("SK123")}

\* a wire map that has every field of the bank account
FullBankAccount ==
  PyDict([i \in 1..Len(BankAccountModelFields) |->
            <<BankAccountModelFields[i].name,
              IF BankAccountModelFields[i].name = "default" THEN PyInt(1) ELSE None>>])

\* the wire maps from_dict is called with
WireMaps ==
  {KwargsOf(WireKeys, f) :
     f \in UNION {[s -> WireValues] : s \in SUBSET (1..Len(WireKeys))}}
    \cup {FullBankAccount,
          PyDict(<< <<"id", PyInt(1)>> >> \o FullBankAccount.v)}

\* most entries of a bank-account list
MaxAccounts == 2

\* the bank accounts a server lists: with some of the fields or with all of
\* them, flagged as default or not
ListedAccounts ==
  {PyDict(<< <<"default", PyInt(0)>>, <<"iban", PyStr("x")>> >>),
   PyDict(<< <<"default", PyInt(1)>>, <<"iban", PyStr("SK123")>> >>),
   FullBankAccount,
   PyDict([i \in 1..Len(FullBankAccount.v) |->
             IF FullBankAccount.v[i][1] = "iban" THEN <<"iban", PyStr("SK123")>>
             ELSE FullBankAccount.v[i]])}

\* the bodies a server answers bank_accounts/index with
BankAccountLists ==
  {JsonDumps(PyDict(<< <<"BankAccounts",
                         PyList([i \in 1..Len(accounts) |->
                                   PyDict(<< <<"BankAccount", accounts[i]>> >>)])>> >>)) :
     accounts \in UNION {[1..n -> ListedAccounts] : n \in 0..MaxAccounts}}

\* the bodies a server answers invoices/create with: an error code and a
\* message, and data that has an Invoice, has none, is null or is absent
InvoiceAddBodies ==
  {JsonDumps(PyDict(<< <<"error", PyInt(1)>>, <<"error_message", PyStr("x")>> >> \o d)) :
     d \in { <<>>,
             << <<"data", None>> >>,
             << <<"data", PyDict(<<>>)>> >>,
             << <<"data", PyDict(<< <<"Invoice",
                    PyDict(<< <<"id", PyStr("2")>>, <<"token", PyStr("x")>> >>)>> >>)>> >> }}

\* a body a server answers clients/create with when it creates no client
AddContactBodies ==
  {JsonDumps(PyDict(<< <<"error", PyInt(1)>>, <<"error_message", PyStr("x")>> >>))}

\* InvoiceSettings(language=Language.English), as the example passes it
SampleSettings == {PyDict(<< <<"language", PyStr("eng")>> >>)}

\* the response records get_pdf is called with: of an invoice that was
\* created, and of one that was not
SampleResponses ==
  {InvoiceRespModel(PyInt(0), PyStr("x"), PyInt(1), PyStr("x")),
   InvoiceRespModel(PyInt(1), PyStr("x"), None, None)}

\* Language.Czech, the default of get_pdf, and Language.English
Languages == {"cze", "eng"}

\* the strings Date is constructed from: year, month and day in several
\* spellings with one separator, and some strings of another shape
DateStrings ==
  {y \o <<sep>> \o m \o <<sep>> \o d :
     y \in {<<"2", "0", "2", "4">>, <<"2", "0", "2", "5">>, <<"0", "9", "9", "9">>},
     m \in {<<"0", "2">>, <<"4">>, <<"1", "3">>, <<"0", "4">>},
     d \in {<<"2", "9">>, <<"1">>, <<"3", "0">>, <<"0", "1">>},
     sep \in {"-", "/"}}
    \cup {<<>>,
          <<"2", "0", "2", "5", "0", "4", "0", "1">>,
          <<"2", "0", "2", "5", "-", "0", "4", "-", "0", "1", " ">>,
          <<"2", "0", "2", "5", "-", "0", "4", "-", " ", "1">>,
          <<"0", "0", "0", "0", "-", "0", "1", "-", "0", "1">>}

\* the arguments of Date(...): no string, or a string
DateArgs == {None} \cup {PyChars(cs) : cs \in DateStrings}

\* the record classes, and those that have from_dict
RecordClasses == {"InvoiceModel", "InvoiceItem", "ClientContactModel", "BankAccountModel"}

InboundClasses == {"ClientContactModel", "BankAccountModel"}

(***************************************************************************)
(* The state: the environment of the process, the client the caller holds, *)
(* the last call made on it and what it did; and, for the record mapping,  *)
(* a record with the transforms applied to it.                             *)
(***************************************************************************)
VARIABLES env, client, last, mapping, date

vars == <<env, client, last, mapping, date>>

\* a call: its arguments, what the network did with its request, the
\* requests it sent, its outcome and the descriptor after it
Call(op, args, net, sent, outcome, descriptor) ==
  [op |-> op, args |-> args, net |-> net, sent |-> sent, outcome |-> outcome,
   descriptor |-> descriptor]

NoCall == Call("none", [none |-> TRUE], NetTimeout, <<>>, Return(None), NoDescriptor)

\* a record built from kwargs, its wire map once as_dict has run, and the
\* outcome of from_dict on that wire map once it has run
Mapping(op, cls, kwargs, record, wire, back) ==
  [op |-> op, cls |-> cls, kwargs |-> kwargs, record |-> record, wire |-> wire,
   back |-> back]

NoMapping == Mapping("none", "none", PyDict(<<>>), None, None, Return(None))

\* a Date call: the argument of Date(...), the outcome of the constructor, and
\* what the method called on the Date returned
DateCall(op, date_str, obj, text) ==
  [op |-> op, date_str |-> date_str, obj |-> obj, text |-> text]

NoDate == DateCall("none", None, Return(None), None)

Init ==
  /\ env \in Environments
  /\ client = NoClient
  /\ last = NoCall
  /\ mapping = NoMapping
  /\ date = NoDate

\* client = Cls(): the name is bound only when the constructor returns
Construct ==
  \E cls \in ClientClasses :
    \E e \in {init(cls, env)} :
       /\ client' = IF e.outcome.kind = "return" THEN e.outcome.value ELSE client
       /\ last' = Call("__init__", [cls |-> cls], NetTimeout, e.sent,
                       IF e.outcome.kind = "return" THEN Return(None) ELSE e.outcome,
                       NoDescriptor)
       /\ UNCHANGED <<env, mapping, date>>

\* client.get(endpoint)
CallGet ==
  /\ client # NoClient
  /\ \E endpoint \in Endpoints, net \in NetOutcomes :
       \E e \in {get(client, endpoint, DefaultTimeout, net)} :
          last' = Call("get", [endpoint |-> endpoint], net, e.sent, e.outcome,
                       NoDescriptor)
  /\ UNCHANGED <<env, client, mapping, date>>

\* client.post(endpoint, data)
CallPost ==
  /\ client # NoClient
  /\ \E endpoint \in Endpoints, data \in Payloads, net \in NetOutcomes :
       \E e \in {post(client, endpoint, data, DefaultTimeout, net)} :
          last' = Call("post", [endpoint |-> endpoint, data |-> data], net, e.sent,
                       e.outcome, NoDescriptor)
  /\ UNCHANGED <<env, client, mapping, date>>

\* client.download(endpoint, descriptor)
CallDownload ==
  /\ client # NoClient
  /\ \E endpoint \in Endpoints, dc \in DescriptorCases, net \in NetOutcomes :
       \E e \in {download(client, endpoint, dc[1], DefaultTimeout, net, dc[2])} :
          last' = Call("download", [endpoint |-> endpoint, descriptor |-> dc[1]],
                       net, e.sent, e.outcome, e.descriptor)
  /\ UNCHANGED <<env, client, mapping, date>>

\* client.add_contact(contact) on a ClientContact
CallAddContact ==
  /\ client.cls = "ClientContact"
  /\ \E contact \in SampleContacts,
        net \in NetOutcomes \cup {Response(200, b) : b \in AddContactBodies} :
       \E e \in {add_contact(client, contact, net)} :
          last' = Call("add_contact", [contact |-> contact], net, e.sent, e.outcome,
                       NoDescriptor)
  /\ UNCHANGED <<env, client, mapping, date>>

\* client.add(invoice_model, items, contact) on an Invoice
CallInvoiceAdd ==
  /\ client.cls = "Invoice"
  /\ \E invoice_model \in SampleInvoices, items \in ItemLists,
        contact \in SampleContacts,
        net \in NetOutcomes \cup {Response(200, b) : b \in InvoiceAddBodies} :
       \E e \in {Invoice_add(client, invoice_model, items, contact, net)} :
          last' = Call("add",
                       [invoice_model |-> invoice_model, items |-> items,
                        contact |-> contact],
                       net, e.sent, e.outcome, NoDescriptor)
  /\ UNCHANGED <<env, client, mapping, date>>

\* client.add(invoice_model, items, contact, invoice_settings) on an Invoice;
\* the call sends no request, so the network has no part in it
CallInvoiceAddWithSettings ==
  /\ client.cls = "Invoice"
  /\ \E invoice_model \in SampleInvoices, items \in ItemLists,
        contact \in SampleContacts, invoice_settings \in SampleSettings :
       \E e \in {Invoice_add_with_settings(client, invoice_model, items, contact,
                                           invoice_settings)} :
          last' = Call("add_with_settings",
                       [invoice_model |-> invoice_model, items |-> items,
                        contact |-> contact, invoice_settings |-> invoice_settings],
                       NetTimeout, e.sent, e.outcome, NoDescriptor)
  /\ UNCHANGED <<env, client, mapping, date>>

\* client.get_pdf(invoice, language) on an Invoice; the call sends no request
CallGetPdf ==
  /\ client.cls = "Invoice"
  /\ \E invoice \in SampleResponses, language \in Languages :
       \E e \in {get_pdf(client, invoice, language)} :
          last' = Call("get_pdf", [invoice |-> invoice, language |-> language],
                       NetTimeout, e.sent, e.outcome, NoDescriptor)
  /\ UNCHANGED <<env, client, mapping, date>>

\* client.get_pdf(invoice, descriptor, language) on an Invoice; the call sends
\* no request
CallGetPdfWithDescriptor ==
  /\ client.cls = "Invoice"
  /\ \E invoice \in SampleResponses, language \in Languages, dc \in DescriptorCases :
       \E e \in {get_pdf_with_descriptor(client, invoice, dc[1], language)} :
          last' = Call("get_pdf",
                       [invoice |-> invoice, language |-> language,
                        descriptor |-> dc[1]],
                       NetTimeout, e.sent, e.outcome, e.descriptor)
  /\ UNCHANGED <<env, client, mapping, date>>

\* client.default() on a BankAccount
CallDefault ==
  /\ client.cls = "BankAccount"
  /\ \E net \in NetOutcomes \cup {Response(200, b) : b \in BankAccountLists} :
       \E e \in {BankAccount_default(client, net)} :
          last' = Call("default", [endpoint |-> "bank_accounts/index"], net, e.sent,
                       e.outcome, NoDescriptor)
  /\ UNCHANGED <<env, client, mapping, date>>

Next ==
  \/ Construct
  \/ CallGet
  \/ CallPost
  \/ CallDownload
  \/ CallAddContact
  \/ CallInvoiceAdd
  \/ CallInvoiceAddWithSettings
  \/ CallGetPdf
  \/ CallGetPdfWithDescriptor
  \/ CallDefault

\* the client and its calls
Spec == Init /\ [][Next]_vars

(***************************************************************************)
(* The record mapping on its own: a caller constructs a record, as_dict    *)
(* makes its wire map, from_dict reads the wire map back.                  *)
(***************************************************************************)
InitMapping ==
  /\ env = [n \in EnvNames |-> "set"]
  /\ client = NoClient
  /\ last = NoCall
  /\ \E cls \in RecordClasses :
       \E kw \in Kwargs(FieldsOf(cls)) :
         mapping = Mapping("new", cls, kw, dataclass_init(cls, FieldsOf(cls), kw).value,
                           None, Return(None))
  /\ date = NoDate

\* record.as_dict()
AsDict ==
  /\ mapping.op = "new"
  /\ mapping' = [mapping EXCEPT !.op = "as_dict", !.wire = as_dict(mapping.record)]
  /\ UNCHANGED <<env, client, last, date>>

\* Cls.from_dict(record.as_dict())
FromDictOfAsDict ==
  /\ mapping.op = "as_dict"
  /\ mapping.cls \in InboundClasses
  /\ mapping' = [mapping EXCEPT !.op = "from_dict",
                                !.back = from_dict(mapping.cls, mapping.wire)]
  /\ UNCHANGED <<env, client, last, date>>

\* Cls.from_dict(m) for a wire map m a server sent
FromDict ==
  /\ mapping.op = "new"
  /\ mapping.cls \in InboundClasses
  /\ \E m \in WireMaps :
       mapping' = Mapping("from_wire", mapping.cls, PyDict(<<>>), None, m,
                          from_dict(mapping.cls, m))
  /\ UNCHANGED <<env, client, last, date>>

NextMapping ==
  \/ AsDict
  \/ FromDictOfAsDict
  \/ FromDict

SpecMapping == InitMapping /\ [][NextMapping]_vars

(***************************************************************************)
(* Date on its own: a caller constructs a Date and asks for its string.    *)
(***************************************************************************)
InitDate ==
  /\ env = [n \in EnvNames |-> "set"]
  /\ client = NoClient
  /\ last = NoCall
  /\ mapping = NoMapping
  /\ date = NoDate

\* Date(date_str), Date()
NewDate ==
  /\ date.op = "none"
  /\ \E date_str \in DateArgs :
       date' = DateCall("new", date_str, Date_init(date_str), None)
  /\ UNCHANGED <<env, client, last, mapping>>

\* str(d)
DateStr ==
  /\ date.op = "new"
  /\ date.obj.kind = "return"
  /\ \E pad_year \in BOOLEAN :
       date' = [date EXCEPT !.op = "str", !.text = Date_str(date.obj.value, pad_year)]
  /\ UNCHANGED <<env, client, last, mapping>>

\* d.to_dict()
DateToDict ==
  /\ date.op = "new"
  /\ date.obj.kind = "return"
  /\ \E pad_year \in BOOLEAN :
       date' = [date EXCEPT !.op = "to_dict",
                            !.text = Date_to_dict(date.obj.value, pad_year)]
  /\ UNCHANGED <<env, client, last, mapping>>

\* d.to_json()
DateToJson ==
  /\ date.op = "new"
  /\ date.obj.kind = "return"
  /\ \E pad_year \in BOOLEAN :
       date' = [date EXCEPT !.op = "to_json",
                            !.text = Date_to_json(date.obj.value, pad_year)]
  /\ UNCHANGED <<env, client, last, mapping>>

\* json.dumps(d, cls=DateEncoder)
DateEncode ==
  /\ date.op = "new"
  /\ date.obj.kind = "return"
  /\ date' = [date EXCEPT !.op = "dumps",
                           !.text = [t |-> "json", v |-> JsonDumps(date.obj.value)]]
  /\ UNCHANGED <<env, client, last, mapping>>

NextDate ==
  \/ NewDate
  \/ DateStr
  \/ DateToDict
  \/ DateToJson
  \/ DateEncode

SpecDate == InitDate /\ [][NextDate]_vars

(***************************************************************************)
(* Properties of the client and its calls (Spec).                          *)
(***************************************************************************)
IsResponse == last.net.kind = "response"

CredentialsComplete == \A n \in EnvNames : env[n] = "set"

RaisedApiError ==
  last.outcome.kind = "raise" /\ last.outcome.exc.cls = SuperFakturaAPIException

\* C1: constructing a client while one of the four configuration values is
\* absent or empty raises SuperFakturaAPIMissingCredentialsException, sends no
\* request and binds no client, so that no call is ever made; with the four
\* values set the constructor returns a client of the class constructed.
C1_MissingCredentials ==
  /\ (last.op = "__init__" /\ ~CredentialsComplete) =>
       /\ last.outcome.kind = "raise"
       /\ last.outcome.exc.cls = SuperFakturaAPIMissingCredentialsException
  /\ ~CredentialsComplete =>
       /\ client = NoClient
       /\ last.sent = <<>>
       /\ last.op \in {"none", "__init__"}
  /\ (last.op = "__init__" /\ CredentialsComplete) =>
       /\ last.outcome = Return(None)
       /\ last.sent = <<>>
       /\ client # NoClient
       /\ client.cls = last.args.cls

C1_Witness ==
  /\ last.op = "__init__"
  /\ env["SUPERFAKTURA_API_COMPANY_ID"] = "empty"
  /\ \A n \in EnvNames \ {"SUPERFAKTURA_API_COMPANY_ID"} : env[n] = "set"
  /\ last.outcome.kind = "raise"

\* C2: get, answered with a status other than 200, raises
\* SuperFakturaAPIException with the status code and the raw body, whatever
\* the body is.
C2_GetNon200 ==
  (last.op = "get" /\ IsResponse /\ last.net.status_code # 200) =>
    /\ RaisedApiError
    /\ last.outcome.exc.msg.prefix = "Get status code"
    /\ last.outcome.exc.msg.status_code = last.net.status_code
    /\ last.outcome.exc.msg.content = last.net.content

C2_Witness ==
  /\ last.op = "get"
  /\ IsResponse
  /\ last.net.status_code = 201
  /\ IsJson(last.net.content)
  /\ RaisedApiError

\* C3: get and post, answered with status 200 and a JSON body, return the
\* decoded value of the body; the body {"data":"test"} gives the dict with
\* the one key data and the value "test".
C3_Returns200Json ==
  (last.op \in {"get", "post"} /\ IsResponse /\ last.net.status_code = 200
     /\ IsJson(last.net.content)) =>
    /\ last.outcome = Return(JsonLoads(last.net.content))
    /\ last.net.content = <<"{", Quote("data"), ":", Quote("test"), "}">> =>
         last.outcome.value = PyDict(<< <<"data", PyStr("test")>> >>)

C3_Witness ==
  /\ last.op = "post"
  /\ IsResponse
  /\ last.net.status_code = 200
  /\ last.net.content = <<"{", Quote("data"), ":", Quote("test"), "}">>
  /\ last.outcome.kind = "return"

\* C4: get, answered with status 200 and a body that is not JSON, returns
\* nothing: it raises an error that carries the raw body and the parse failure
\* and that differs from every error get raises on a status other than 200.
C4_GetDecodeError ==
  (last.op = "get" /\ IsResponse /\ last.net.status_code = 200
     /\ ~IsJson(last.net.content)) =>
    /\ RaisedApiError
    /\ last.outcome.exc.msg.prefix = "Unable to decode response as JSON"
    /\ last.outcome.exc.msg.content = last.net.content
    /\ last.outcome.exc.msg.cause = JSONDecodeError
    /\ \A net \in NetOutcomes :
         (net.kind = "response" /\ net.status_code # 200) =>
           get(client, last.args.endpoint, DefaultTimeout, net).outcome # last.outcome

C4_Witness ==
  /\ last.op = "get"
  /\ IsResponse
  /\ last.net.status_code = 200
  /\ last.net.content = <<"%PDF-1.4", "%%EOF">>
  /\ last.outcome.kind = "raise"

\* C5: post classifies a response as get does: on a status other than 200 it
\* raises SuperFakturaAPIException with the status code and the raw body,
\* whether or not the body is JSON, and on status 200 with a body that is not
\* JSON it raises the decode error of get.
C5_PostClassifiesAsGet ==
  (last.op = "post" /\ IsResponse) =>
    /\ last.net.status_code # 200 =>
         /\ RaisedApiError
         /\ last.outcome.exc.msg.status_code = last.net.status_code
         /\ "content" \in DOMAIN last.outcome.exc.msg
         /\ last.outcome.exc.msg.content = last.net.content
    /\ (last.net.status_code = 200 /\ ~IsJson(last.net.content)) =>
         /\ RaisedApiError
         /\ last.outcome.exc.msg.prefix = "Unable to decode response as JSON"

\* the JSON string the last call hands to post
SubmittedJson ==
  CASE last.op = "post" -> last.args.data
    [] last.op = "add_contact" ->
         JsonDumps(PyDict(<< <<"Client", as_dict(last.args.contact)>> >>))
    [] last.op = "add" ->
         JsonDumps(PyDict(
           << <<"Invoice", as_dict(last.args.invoice_model)>>,
              <<"InvoiceItem",
                PyList([i \in 1..Len(last.args.items) |-> as_dict(last.args.items[i])])>>,
              <<"Client", as_dict(last.args.contact)>> >>))

\* C6: post, add_contact and Invoice.add send one POST request whose form has
\* the single field data, holding the JSON string unchanged; the string that
\* add_contact submits decodes to {"Client": wire map of the contact}.
C6_PostFormData ==
  /\ last.op \in {"post", "add_contact", "add"} =>
       /\ Len(last.sent) = 1
       /\ last.sent[1].method = "POST"
       /\ DOMAIN last.sent[1] = {"method", "url", "headers", "data", "timeout"}
       /\ last.sent[1].data = << <<"data", SubmittedJson>> >>
  /\ last.op = "add_contact" =>
       /\ IsJson(last.sent[1].data[1][2])
       /\ JsonLoads(last.sent[1].data[1][2])
            = PyDict(<< <<"Client", ClientContactModel_as_dict(last.args.contact)>> >>)
  /\ \A i \in 1..Len(last.sent) :
       last.sent[i].method = "POST" <=> last.op \in {"post", "add_contact", "add"}

C6_Witness ==
  /\ last.op = "add"
  /\ Len(last.args.items) = 1
  /\ Len(last.sent) = 1
  /\ last.sent[1].data[1][1] = "data"

\* C7: download, answered with status 200 and given a descriptor open for
\* writing, returns after one write of exactly the body: the descriptor holds
\* what it held, then the body.
C7_DownloadWritesBody ==
  (last.op = "download" /\ IsResponse /\ last.net.status_code = 200
     /\ last.args.descriptor.mode = "wb") =>
    /\ last.outcome = Return(None)
    /\ last.descriptor = Descriptor("wb", Append(last.args.descriptor.written, last.net.content))

C7_Witness ==
  /\ last.op = "download"
  /\ IsResponse
  /\ last.net.status_code = 200
  /\ last.net.content = <<"%PDF-1.4", "%%EOF">>
  /\ last.args.descriptor = Descriptor("wb", << <<"old">> >>)
  /\ last.outcome.kind = "return"

\* C8: download, answered with a status other than 200 or given a descriptor
\* that is not open for writing, raises SuperFakturaAPIException and leaves
\* the descriptor as it was.
C8_DownloadFailure ==
  (last.op = "download" /\ IsResponse
     /\ (last.net.status_code # 200 \/ last.args.descriptor.mode # "wb")) =>
    /\ RaisedApiError
    /\ last.descriptor = last.args.descriptor

\* the bank accounts of a decoded bank-account list, in the order listed
ListedIn(resp) ==
  [i \in 1..Len(DictGet(resp, "BankAccounts").v) |->
     DictGet(DictGet(resp, "BankAccounts").v[i], "BankAccount")]

\* the bank-account record with the fields a wire map has
MappedAccount(m) ==
  [t |-> "BankAccountModel",
   v |-> [i \in 1..Len(BankAccountModelFields) |->
            <<BankAccountModelFields[i].name,
              IF HasKey(m, BankAccountModelFields[i].name)
                THEN DictGet(m, BankAccountModelFields[i].name)
                ELSE None>>]]

\* C12: default(), given a bank-account list, returns the record mapped from
\* the first entry whose default flag is truthy, whatever fields that entry
\* has and whatever entries follow it, and raises NoDefaultBankAccount exactly
\* when no entry is flagged.
C12_DefaultFirstFlagged ==
  (last.op = "default" /\ IsResponse /\ last.net.status_code = 200
     /\ last.net.content \in BankAccountLists) =>
    LET accounts == ListedIn(JsonLoads(last.net.content))
        flagged == {i \in 1..Len(accounts) : Truthy(DictGet(accounts[i], "default"))}
    IN IF flagged = {}
         THEN /\ last.outcome.kind = "raise"
              /\ last.outcome.exc.cls = NoDefaultBankAccountException
         ELSE last.outcome =
                Return(MappedAccount(accounts[CHOOSE i \in flagged :
                                                \A j \in flagged : i <= j]))

\* the response has data.Invoice
HasDataInvoice(resp) ==
  /\ HasKey(resp, "data")
  /\ DictGet(resp, "data").t = "dict"
  /\ HasKey(DictGet(resp, "data"), "Invoice")

\* the call was answered 200 with a JSON object that has an error code and a message
AnsweredWithEnvelope ==
  /\ IsResponse
  /\ last.net.status_code = 200
  /\ IsJson(last.net.content)
  /\ JsonLoads(last.net.content).t = "dict"
  /\ HasKey(JsonLoads(last.net.content), "error")
  /\ HasKey(JsonLoads(last.net.content), "error_message")

\* C13: Invoice.add, answered 200 with an error code and a message, returns a
\* record with that code and message; the record has the integer of
\* data.Invoice.id and data.Invoice.token when the response has data.Invoice,
\* and neither when it has not.
C13_AddResponseRecord ==
  (last.op = "add" /\ AnsweredWithEnvelope) =>
    LET resp == JsonLoads(last.net.content)
    IN /\ last.outcome.kind = "return"
       /\ last.outcome.value =
            IF HasDataInvoice(resp)
              THEN InvoiceRespModel(
                     DictGet(resp, "error"), DictGet(resp, "error_message"),
                     int(DictGet(DictGet(DictGet(resp, "data"), "Invoice"), "id")).value,
                     DictGet(DictGet(DictGet(resp, "data"), "Invoice"), "token"))
              ELSE InvoiceRespModel(DictGet(resp, "error"), DictGet(resp, "error_message"),
                                    None, None)

\* what a value is once written as JSON and read back
Encoded(x) == JsonLoads(JsonDumps(x))

\* C14: the envelope Invoice.add submits has the wire map of the invoice under
\* Invoice, of the contact under Client, the wire maps of the line items in
\* the caller's order under InvoiceItem, and the settings under InvoiceSetting
\* when the caller gives settings, no or empty InvoiceSetting when not.
C14_Envelope ==
  last.op \in {"add", "add_with_settings"} =>
    /\ Len(last.sent) = 1
    /\ LET envelope == JsonLoads(last.sent[1].data[1][2])
       IN /\ DictGet(envelope, "Invoice") = Encoded(as_dict(last.args.invoice_model))
          /\ DictGet(envelope, "Client") = Encoded(as_dict(last.args.contact))
          /\ DictGet(envelope, "InvoiceItem") =
               PyList([i \in 1..Len(last.args.items) |->
                         Encoded(as_dict(last.args.items[i]))])
          /\ IF last.op = "add_with_settings"
               THEN /\ HasKey(envelope, "InvoiceSetting")
                    /\ DictGet(envelope, "InvoiceSetting") = last.args.invoice_settings
               ELSE HasKey(envelope, "InvoiceSetting") =>
                      DictGet(envelope, "InvoiceSetting") = PyDict(<<>>)

\* C15: get_pdf sends no request for a response record without id or token;
\* for a record with both it sends one GET to
\* <language>/invoices/pdf/<invoice_id>/token:<invoice_token> and, answered
\* 200, writes the body into the caller's descriptor.
C15_GetPdf ==
  last.op = "get_pdf" =>
    IF last.args.invoice.v[3][2] = None \/ last.args.invoice.v[4][2] = None
      THEN last.sent = <<>>
      ELSE /\ Len(last.sent) = 1
           /\ last.sent[1].method = "GET"
           /\ last.sent[1].url =
                client._api_url \o "/" \o last.args.language \o "/invoices/pdf/"
                  \o str(last.args.invoice.v[3][2]) \o "/token:"
                  \o str(last.args.invoice.v[4][2])
           /\ ("descriptor" \in DOMAIN last.args /\ last.args.descriptor.mode = "wb"
                 /\ last.outcome.kind = "return") =>
                Len(last.descriptor.written) = Len(last.args.descriptor.written) + 1

\* C16: add_contact, answered 200 with a JSON body, returns true when the
\* body has the message "Client created" and false for every other body,
\* one without a message included; it does not raise.
C16_AddContactFlag ==
  (last.op = "add_contact" /\ IsResponse /\ last.net.status_code = 200
     /\ IsJson(last.net.content)) =>
    LET resp == JsonLoads(last.net.content)
    IN last.outcome =
         Return(PyBool(/\ resp.t = "dict"
                       /\ HasKey(resp, "error_message")
                       /\ DictGet(resp, "error_message") = PyStr("Client created")))

\* C19: a field of the invoice that holds an unset Date is no key of the wire
\* map of the invoice and no key of the Invoice section that Invoice.add
\* submits, like a field that is None; a field that holds a set Date is
\* submitted as its YYYY-MM-DD string.
C19_UnsetDateAbsent ==
  last.op = "add" =>
    LET invoice == last.args.invoice_model
        submitted == DictGet(JsonLoads(last.sent[1].data[1][2]), "Invoice")
    IN \A i \in 1..Len(invoice.v) :
         invoice.v[i][2].t = "Date" =>
           IF Date_is_set(invoice.v[i][2])
             THEN /\ HasKey(submitted, invoice.v[i][1])
                  /\ DictGet(submitted, invoice.v[i][1])
                       = PyStr(Concat(strftime(invoice.v[i][2].v, TRUE)))
             ELSE /\ ~HasKey(as_dict(invoice), invoice.v[i][1])
                  /\ ~HasKey(submitted, invoice.v[i][1])

\* the authorization header built from the four configured values
ConfiguredHeader ==
  << <<"Authorization",
       "SFAPI email=" \o EnvValue("SUPERFAKTURA_API_EMAIL")
         \o "&apikey=" \o EnvValue("SUPERFAKTURA_API_KEY")
         \o "&company_id=" \o EnvValue("SUPERFAKTURA_API_COMPANY_ID")>> >>

\* C20: whatever calls were made on a client and however they ended, its base
\* URL and its authorization header are those configured at construction,
\* and every request of get, post and download goes to <base URL>/<endpoint>
\* with that header.
C20_ClientUnchanged ==
  /\ client # NoClient =>
       /\ client._api_url = EnvValue("SUPERFAKTURA_API_URL")
       /\ client._auth_header = ConfiguredHeader
  /\ last.op \in {"get", "post", "download"} =>
       \A i \in 1..Len(last.sent) :
         /\ last.sent[i].url
              = EnvValue("SUPERFAKTURA_API_URL") \o "/" \o last.args.endpoint
         /\ last.sent[i].headers = ConfiguredHeader

C20_Witness ==
  /\ client # NoClient
  /\ last.op = "download"
  /\ last.outcome.kind = "raise"
  /\ Len(last.sent) = 1
  /\ last.args.endpoint = "invoices/create"

\* C21: each call of get, post or download issues exactly one HTTP request,
\* whatever its outcome (200, non-200, undecodable body, unwritable sink,
\* timeout): a failed request is not sent again, and the call is answered from
\* the response to its own request (a returned value is that response's
\* decoded body, a written chunk is that response's body, and a request that
\* times out is never answered with a value)
C21_OneRequestPerCall ==
  last.op \in {"get", "post", "download"} =>
    /\ Len(last.sent) = 1
    /\ last.net.kind = "timeout" => last.outcome = Raise(Timeout, [prefix |-> "timed out"])
    /\ last.outcome.kind = "return" =>
         /\ last.net.kind = "response"
         /\ last.net.status_code = 200
         /\ last.op \in {"get", "post"} => last.outcome.value = JsonLoads(last.net.content)
         /\ last.op = "download" =>
              last.descriptor.written
                = Append(last.args.descriptor.written, last.net.content)

\* C21: a post whose request timed out has sent one request
C21_Witness ==
  /\ last.op = "post"
  /\ last.net.kind = "timeout"
  /\ last.outcome.kind = "raise"
  /\ Len(last.sent) = 1

(***************************************************************************)
(* Properties of the record mapping (SpecMapping).                         *)
(***************************************************************************)
\* the caller gave the field a value that is not None
CallerSet(name) == HasKey(mapping.kwargs, name) /\ DictGet(mapping.kwargs, name) # None

Serialized == mapping.op \in {"as_dict", "from_dict"}

\* C9 as claimed: the wire map has a key only for a field the caller set.
C9_OnlyCallerSetKeys ==
  Serialized =>
    \A i \in 1..Len(mapping.wire.v) : CallerSet(mapping.wire.v[i][1])

\* C9: the wire map has a key exactly for the fields whose value is not None:
\* a field the caller set to a value other than None, with that value, and a
\* field the caller did not give whose declared default is not None, with
\* that default; no key has the value None, and the keys are in declaration
\* order.
C9_KeysOfNonNoneValues ==
  Serialized =>
    LET fields == FieldsOf(mapping.cls)
        wire == mapping.wire
    IN /\ \A i \in 1..Len(fields) :
            LET name == fields[i].name
            IN IF HasKey(mapping.kwargs, name)
                 THEN /\ HasKey(wire, name) <=> DictGet(mapping.kwargs, name) # None
                      /\ HasKey(wire, name) =>
                           DictGet(wire, name) = DictGet(mapping.kwargs, name)
                 ELSE /\ HasKey(wire, name) <=> fields[i].default # None
                      /\ HasKey(wire, name) => DictGet(wire, name) = fields[i].default
       /\ \A i \in 1..Len(wire.v) :
            /\ wire.v[i][1] \in FieldNames(fields)
            /\ wire.v[i][2] # None
            /\ \A j \in 1..Len(wire.v) : wire.v[i][1] = wire.v[j][1] => i = j
       /\ \A i, j \in 1..Len(fields) :
            (i < j /\ HasKey(wire, fields[i].name) /\ HasKey(wire, fields[j].name)) =>
              \E a, b \in 1..Len(wire.v) :
                a < b /\ wire.v[a][1] = fields[i].name /\ wire.v[b][1] = fields[j].name

C9_Witness ==
  /\ mapping.op = "as_dict"
  /\ mapping.cls = "InvoiceItem"
  /\ CallerSet("tax")
  /\ DictGet(mapping.kwargs, "unit_price") = PyInt(0)
  /\ HasKey(mapping.wire, "quantity")
  /\ ~HasKey(mapping.wire, "sku")

\* C10: from_dict(as_dict(r)) returns a record in which every field that is
\* not None in r has the value it has in r, for a client contact and for a
\* bank account.
C10_RoundTrip ==
  mapping.op = "from_dict" =>
    /\ mapping.back.kind = "return"
    /\ mapping.back.value.t = mapping.cls
    /\ \A i \in 1..Len(mapping.record.v) :
         mapping.record.v[i][2] # None =>
           mapping.back.value.v[i] = mapping.record.v[i]

\* the mandatory fields of an inbound record, as claimed
ClaimedMandatory(cls) == IF cls = "ClientContactModel" THEN {"name"} ELSE {}

\* C11: from_dict(m) fails only if a mandatory field (the name of a contact,
\* no field of a bank account) is absent from m; otherwise the record has the
\* declared fields, m's value for each one present in m and None for each one
\* absent, whatever other keys m has.
C11_FromDict ==
  mapping.op = "from_wire" =>
    LET fields == FieldsOf(mapping.cls)
        m == mapping.wire
    IN /\ mapping.back.kind = "raise" <=>
            \E n \in ClaimedMandatory(mapping.cls) : ~HasKey(m, n)
       /\ mapping.back.kind = "return" =>
            /\ mapping.back.value.t = mapping.cls
            /\ Len(mapping.back.value.v) = Len(fields)
            /\ \A i \in 1..Len(fields) :
                 mapping.back.value.v[i] =
                   <<fields[i].name,
                     IF HasKey(m, fields[i].name) THEN DictGet(m, fields[i].name)
                     ELSE None>>

(***************************************************************************)
(* Properties of Date (SpecDate).                                          *)
(***************************************************************************)
\* cs is YYYY-MM-DD: four digits, two digits, two digits, and a day of the calendar
IsCanonicalDate(cs) ==
  /\ Len(cs) = 10
  /\ \A i \in {1, 2, 3, 4, 6, 7, 9, 10} : IsDigit(cs[i])
  /\ cs[5] = "-"
  /\ cs[8] = "-"
  /\ NumberOfDigits(SubSeq(cs, 1, 4)) >= 1
  /\ NumberOfDigits(SubSeq(cs, 6, 7)) \in 1..12
  /\ NumberOfDigits(SubSeq(cs, 9, 10)) >= 1
  /\ NumberOfDigits(SubSeq(cs, 9, 10))
       <= DaysIn(NumberOfDigits(SubSeq(cs, 1, 4)), NumberOfDigits(SubSeq(cs, 6, 7)))

\* C17: Date(s) for a string s that is not YYYY-MM-DD raises an error that
\* names s, the empty string and 2025-4-1 included; a Date is unset only when
\* it was constructed without a string.
C17_DateRejectsMalformed ==
  date.op = "new" =>
    /\ (date.date_str # None /\ ~IsCanonicalDate(date.date_str.v)) =>
         /\ date.obj.kind = "raise"
         /\ date.obj.exc.msg.date_str = date.date_str.v
    /\ (date.obj.kind = "return" /\ ~Date_is_set(date.obj.value)) =>
         date.date_str = None

\* C18: for a string s that Date accepts, str(), to_dict() and to_json() of
\* Date(s) are s.
C18_DateStringRoundTrip ==
  (date.op \in {"str", "to_dict", "to_json"} /\ date.date_str # None) =>
    date.text = date.date_str

====
